---- MODULE Spec2Model ----
(***************************************************************************)
(* Guardrail pipeline of the Slack / Shopify assistant (src/server.js and  *)
(* its earlier variant src/unnamed/part_000): handleMessage, the per-user  *)
(* sliding-window rate limiter and the keyword classifiers.                *)
(*                                                                         *)
(* Node runs handleMessage tasks cooperatively: a task runs without        *)
(* interruption from one `await` to the next.  Each action below is the    *)
(* settlement of one awaited call followed by the synchronous code up to   *)
(* the next await; pc names the await a task is suspended on.              *)
(***************************************************************************)
EXTENDS Integers, Sequences, FiniteSets, TLC

\* ------------------------------------------------------------------ bounds
\* Number of handleMessage tasks that can be in flight at the same time.
NumTasks == 2
\* Largest value Date.now() takes while requests are handled (the clock starts at 0).
MaxTime == 1
\* Largest value Date.now() takes when the rate limiter is exercised on its own.
MaxLimiterTime == 4
\* RATE_LIMIT scaled down from { maxRequests: 10, windowMs: 60000 }.
ScaledMaxRequests == 2
ScaledWindowMs == 2
\* Longest text, in words, handed to isWriteOperation when it is called on its own.
MaxWords == 3
\* Longest query, in tokens, handed to isMutationQuery when it is called on its own.
MaxTokens == 2

\* ------------------------------------------------------------------ strings
\* A JavaScript string is the sequence of its characters.
SP == <<" ">>
W_update == <<"u","p","d","a","t","e">>
W_change == <<"c","h","a","n","g","e">>
W_modify == <<"m","o","d","i","f","y">>
W_set == <<"s","e","t">>
W_delete == <<"d","e","l","e","t","e">>
W_remove == <<"r","e","m","o","v","e">>
W_create == <<"c","r","e","a","t","e">>
W_add == <<"a","d","d">>
W_new == <<"n","e","w">>
W_bulk == <<"b","u","l","k">>
W_inventory == <<"i","n","v","e","n","t","o","r","y">>
W_price == <<"p","r","i","c","e">>
W_product == <<"p","r","o","d","u","c","t">>
W_what == <<"w","h","a","t">>
W_show == <<"s","h","o","w">>
W_tell == <<"t","e","l","l">>
W_how == <<"h","o","w">>
W_mutation == <<"m","u","t","a","t","i","o","n">>
W_query == <<"q","u","e","r","y">>
W_stock == <<"s","t","o","c","k">>
W_of == <<"o","f">>
W_do == <<"d","o">>
W_SKU1 == <<"S","K","U","-","1">>
W_mention == <<"<","@","U","0","B","O","T",">">>

UpperChars == <<"A","B","C","D","E","F","G","H","I","J","K","L","M",
                "N","O","P","Q","R","S","T","U","V","W","X","Y","Z">>
LowerChars == <<"a","b","c","d","e","f","g","h","i","j","k","l","m",
                "n","o","p","q","r","s","t","u","v","w","x","y","z">>
Digits == {"0","1","2","3","4","5","6","7","8","9"}

IsUpper(c) == \E k \in 1..Len(UpperChars) : UpperChars[k] = c

\* String.prototype.toLowerCase
toLowerCase(s) ==
  [i \in 1..Len(s) |->
     IF IsUpper(s[i])
       THEN LowerChars[CHOOSE k \in 1..Len(UpperChars) : UpperChars[k] = s[i]]
       ELSE s[i]]

\* String.prototype.includes
includes(s, sub) ==
  \E i \in 0..(Len(s) - Len(sub)) : SubSeq(s, i + 1, i + Len(sub)) = sub

\* Length of the match of /<@[A-Z0-9]+>/ starting at position i of s, 0 if none.
MentionRun(s, i) ==
  IF i + 1 <= Len(s) /\ s[i] = "<" /\ s[i + 1] = "@"
    THEN LET ends == {j \in (i + 3)..Len(s) :
                        /\ s[j] = ">"
                        /\ \A k \in (i + 2)..(j - 1) : IsUpper(s[k]) \/ s[k] \in Digits}
         IN IF ends = {} THEN 0
            ELSE (CHOOSE j \in ends : \A j2 \in ends : j <= j2) - i + 1
    ELSE 0

\* userMessage.replace(/<@[A-Z0-9]+>/g, '')
RECURSIVE StripFrom(_, _)
StripFrom(s, i) ==
  IF i > Len(s) THEN <<>>
  ELSE IF MentionRun(s, i) > 0 THEN StripFrom(s, i + MentionRun(s, i))
  ELSE <<s[i]>> \o StripFrom(s, i + 1)

replaceMentions(s) == StripFrom(s, 1)

\* String.prototype.trim (the only white space of the inputs is the blank)
trim(s) ==
  LET keep == {i \in 1..Len(s) : s[i] # " "}
  IN IF keep = {} THEN <<>>
     ELSE SubSeq(s, CHOOSE i \in keep : \A j \in keep : i <= j,
                    CHOOSE i \in keep : \A j \in keep : i >= j)


\* ------------------------------------------------------------------ inputs
\* Slack user ids: UA is an admin, UB is not.
Users == {"UA", "UB"}

\* A JavaScript value handed to handleMessage as userMessage.
Str(chars) == [type |-> "string", chars |-> chars]
Undefined == [type |-> "undefined", chars |-> <<>>]

M_updatePrice == W_update \o SP \o W_price \o SP \o W_of \o SP \o W_SKU1
M_updateInventory == W_mention \o SP \o <<"U">> \o Tail(W_update) \o SP \o W_inventory
M_howUpdate == W_how \o SP \o W_do \o SP \o <<"I">> \o SP \o W_update \o SP \o W_inventory
M_showStock == W_show \o SP \o W_stock
M_mentionOnly == W_mention \o SP

UserMessages ==
  {Undefined, Str(<<>>), Str(M_updatePrice), Str(M_updateInventory),
   Str(M_howUpdate), Str(M_showStock), Str(M_mentionOnly)}

\* Texts the query-generation call can return (queryResponse.content[0].text.trim()).
Q_read == W_query \o <<"{">> \o W_stock \o <<"}">>
Q_mutation == W_mutation \o <<"{">> \o W_product \o <<"U">> \o Tail(W_update) \o <<"}">>
Q_readUpdatedAt == W_query \o <<"{">> \o W_update \o <<"d","A","t","}">>
GeneratedQueries == {Q_read, Q_mutation, Q_readUpdatedAt}

\* Payloads queryShopify can return: with a data field, or with an errors field.
ShopifyPayloads == {"data", "errors"}
\* JSON.stringify(shopifyData.errors) of the errors payload.
StringifiedErrors == "[{\"message\":\"Throttled\"}]"
\* formatResponse.content[0].text
FormattedResponses == {"Found 3 products"}
\* error.message of a rejected call.
FaultMessages == {"socket hang up"}
\* What `await say(...)` resolves to: a message with or without a ts.
SayResults == {"with_ts", "no_ts"}

\* ------------------------------------------------------------------ state
VARIABLES
  variant,            \* which source file runs: "server.js" or "part_000"
  ALLOWED_USERS,      \* const ALLOWED_USERS
  ALLOWED_OPERATIONS, \* const ALLOWED_OPERATIONS
  userRequestCounts,  \* const userRequestCounts = new Map(): absent = <<>>
  clock,              \* the last value Date.now() returned
  task,               \* the handleMessage activations
  arrivals,           \* the traffic of this run: how many activations overlap, who writes what
  accepted,           \* history: per user, the `now` of every checkRateLimit call that returned true
  lastCall,           \* history: the latest checkRateLimit call, its Date.now() and what it returned
  probe               \* a classifier called on its own: which one, its argument, what it returned

vars == <<variant, ALLOWED_USERS, ALLOWED_OPERATIONS, userRequestCounts, clock, task, arrivals,
          accepted, lastCall, probe>>

Tasks == 1..NumTasks

ADMIN_USERS == {"UA"}

RATE_LIMIT == [maxRequests |-> ScaledMaxRequests, windowMs |-> ScaledWindowMs]

Variants == {"server.js", "part_000"}

\* The whitelist is left empty ("leave empty to allow all") or names UB only,
\* so that UA is then an admin who is not whitelisted.
Whitelists == {{}, {"UB"}}

SENSITIVE_KEYWORDS ==
  {W_delete, W_remove, W_update \o SP \o W_price, W_change \o SP \o W_price,
   W_bulk \o SP \o W_update}

\* ------------------------------------------------------------------ helpers
\* Mutant: an admin is allowed whatever the whitelist says.
isUserAllowedOrAdmin(userId) ==
  IF Cardinality(ALLOWED_USERS) = 0 THEN TRUE
  ELSE userId \in ALLOWED_USERS \/ userId \in ADMIN_USERS

\* Mutant: an empty ALLOWED_USERS allows nobody.
isUserAllowedNoSentinel(userId) == userId \in ALLOWED_USERS

isUserAllowed(userId) ==
  IF Cardinality(ALLOWED_USERS) = 0 THEN TRUE ELSE userId \in ALLOWED_USERS

isUserAdmin(userId) == userId \in ADMIN_USERS

\* Mutant: one sequence of timestamps is shared by all users.
recentRequestsShared(userId, now) ==
  SelectSeq(userRequestCounts["UA"] \o userRequestCounts["UB"],
            LAMBDA timestamp : now - timestamp < RATE_LIMIT.windowMs)

\* Mutant: a timestamp exactly windowMs old still counts.
recentRequestsInclusive(userId, now) ==
  SelectSeq(userRequestCounts[userId], LAMBDA timestamp : now - timestamp <= RATE_LIMIT.windowMs)

\* Mutant: no timestamp ever expires.
recentRequestsUnfiltered(userId, now) == userRequestCounts[userId]

\* userRequests.filter(timestamp => now - timestamp < RATE_LIMIT.windowMs)
recentRequests(userId, now) ==
  SelectSeq(userRequestCounts[userId], LAMBDA timestamp : now - timestamp < RATE_LIMIT.windowMs)

\* Mutant: the stored array is counted, not the filtered one.
limitReachedOnStored(userId, now) ==
  Len(userRequestCounts[userId]) >= RATE_LIMIT.maxRequests

\* Mutant: the limit is compared with > .
limitReachedOffByOne(userId, now) ==
  Len(recentRequests(userId, now)) > RATE_LIMIT.maxRequests

\* if (recentRequests.length >= RATE_LIMIT.maxRequests)
limitReached(userId, now) ==
  Len(recentRequests(userId, now)) >= RATE_LIMIT.maxRequests

\* The value checkRateLimit returns when Date.now() is now.
checkRateLimit(userId, now) == ~limitReached(userId, now)

\* Mutant: the timestamp is recorded before the limit is looked at.
checkRateLimitStoreRecordsAll(userId, now) ==
  [userRequestCounts EXCEPT ![userId] = Append(recentRequests(userId, now), now)]

\* Mutant: only the new timestamp is stored, the recent ones are dropped.
checkRateLimitStoreLosing(userId, now) ==
  IF limitReached(userId, now)
    THEN userRequestCounts
    ELSE [userRequestCounts EXCEPT ![userId] = <<now>>]

\* Mutant: the new timestamp is pushed onto the stored array, not onto the filtered one.
checkRateLimitStoreUnpruned(userId, now) ==
  IF limitReached(userId, now)
    THEN userRequestCounts
    ELSE [userRequestCounts EXCEPT ![userId] = Append(userRequestCounts[userId], now)]

\* Mutant: a rejected call pushes its timestamp in place of the oldest stored one.
checkRateLimitStoreRejectedRefreshes(userId, now) ==
  IF limitReached(userId, now)
    THEN [userRequestCounts EXCEPT ![userId] = Append(Tail(recentRequests(userId, now)), now)]
    ELSE [userRequestCounts EXCEPT ![userId] = Append(recentRequests(userId, now), now)]

\* userRequestCounts after checkRateLimit(userId) ran at time now.
checkRateLimitStore(userId, now) ==
  IF limitReached(userId, now)
    THEN userRequestCounts
    ELSE [userRequestCounts EXCEPT ![userId] = Append(recentRequests(userId, now), now)]

writeKeywordsServer ==
  {W_update \o SP \o W_inventory, W_change \o SP \o W_price, W_modify \o SP \o W_product,
   W_set \o SP \o W_price, W_delete \o SP \o W_product, W_remove \o SP \o W_product,
   W_create \o SP \o W_product, W_add \o SP \o W_product}

writeKeywordsPart000 ==
  {W_update, W_change, W_modify, W_set, W_delete, W_remove, W_create, W_add \o SP \o W_new}

\* isWriteOperation of src/server.js: questions are always read operations.
isWriteOperationServer(message) ==
  LET lowerMessage == toLowerCase(message)
  IN IF \/ includes(lowerMessage, W_what) \/ includes(lowerMessage, W_show)
        \/ includes(lowerMessage, W_tell) \/ includes(lowerMessage, W_how)
       THEN FALSE
       ELSE \E keyword \in writeKeywordsServer : includes(lowerMessage, keyword)

\* isWriteOperation of src/unnamed/part_000.
isWriteOperationPart000(message) ==
  LET lowerMessage == toLowerCase(message)
  IN \E keyword \in writeKeywordsPart000 : includes(lowerMessage, keyword)

isWriteOperation(message) ==
  IF variant = "server.js" THEN isWriteOperationServer(message)
  ELSE isWriteOperationPart000(message)

containsSensitiveOperation(message) ==
  LET lowerMessage == toLowerCase(message)
  IN \E keyword \in SENSITIVE_KEYWORDS : includes(lowerMessage, keyword)

\* Mutant: only the mutation keyword is looked for.
isMutationQueryKeywordOnly(graphqlQuery) == includes(toLowerCase(graphqlQuery), W_mutation)

isMutationQuery(graphqlQuery) ==
  LET queryLower == toLowerCase(graphqlQuery)
  IN \/ includes(queryLower, W_mutation) \/ includes(queryLower, W_update)
     \/ includes(queryLower, W_delete) \/ includes(queryLower, W_create)

\* Mutant: the text is tested after the mentions were taken out and it was trimmed.
isInvalidMessageCleanText(userMessage) ==
  userMessage.type # "string" \/ trim(replaceMentions(userMessage.chars)) = <<>>

\* Mutant: only the type is tested, an empty string goes on.
isInvalidMessageTypeOnly(userMessage) == userMessage.type # "string"

\* !userMessage || typeof userMessage !== 'string'
isInvalidMessage(userMessage) ==
  userMessage.type # "string" \/ Len(userMessage.chars) = 0

\* const cleanMessage = userMessage.replace(/<@[A-Z0-9]+>/g, '').trim()
cleanMessageOf(userMessage) == trim(replaceMentions(userMessage.chars))


\* ------------------------------------------------------------------ texts
\* A message text: a template and the value interpolated into it.
Text(tpl, arg) == [tpl |-> tpl, arg |-> arg]

T_notAuthorized == Text("Sorry, you are not authorized to use this bot.", "")
T_rateLimitedUpdate ==
  Text("Rate limit exceeded. Wait a minute. (Limit: ${RATE_LIMIT.maxRequests}/min)",
       ToString(RATE_LIMIT.maxRequests))
T_rateLimitedSay == Text("Rate limit exceeded. Wait a minute.", "")
T_writeDisabledUpdate == Text("Write operations are disabled. Read-only queries only.", "")
T_writeDisabledSay == Text("Write operations are disabled.", "")
T_adminRequired == Text("Only administrators can perform updates.", "")
T_mutationUpdate == Text("This query would modify data. Mutations not allowed.", "")
T_mutationSay == Text("Mutations not allowed.", "")
T_apiError == Text("Shopify API error: ${JSON.stringify(shopifyData.errors)}", StringifiedErrors)
T_error(message) == Text("Error: ${error.message}", message)
T_final(formattedResponse) == Text("${formattedResponse}", formattedResponse)
T_invalid == Text("Invalid message received:", "")

\* ------------------------------------------------------------------ tasks
\* The locals of one handleMessage activation, with the calls it has made.
\*   deleted: how client.chat.delete on the status message settled ("none": not called).
\*   reports: the outcome messages the activation has issued, in order; each is
\*   sent by chat.update on the status message ("update"), by say ("say") or
\*   written to the console only ("console"); st is "pending" until the call settles.
IdleTask ==
  [pc |-> "idle", userMessage |-> Undefined, userId |-> "UA",
   statusMessage |-> "null", graphqlQuery |-> <<>>, shopifyData |-> "none",
   formattedResponse |-> "", error |-> "",
   authorized |-> "unset", throttled |-> "unset",
   nGenerate |-> 0, nExecute |-> 0, nFormat |-> 0, reports |-> <<>>,
   deleted |-> "none", cleanMessage |-> <<>>]

\* Mutant: chat.update is called whether or not a status message was created.
UsableWithoutTest(rec) == TRUE

\* statusMessage && client && channelId && statusMessage.ts
\* (Bolt always passes client and the event's channel).
Usable(rec) == rec.statusMessage = "with_ts"

\* The local const cleanMessage of the activation.
cleanMessage(rec) == rec.cleanMessage

\* The text a terminal branch sends, by chat.update or by the say fallback.
ReportText(rec, site) ==
  CASE site = "notAuthorized" -> T_notAuthorized
    [] site = "rateLimited" -> IF Usable(rec) THEN T_rateLimitedUpdate ELSE T_rateLimitedSay
    [] site = "writeDisabled" -> IF Usable(rec) THEN T_writeDisabledUpdate ELSE T_writeDisabledSay
    [] site = "adminRequired" -> T_adminRequired
    [] site = "mutationBlocked" -> IF Usable(rec) THEN T_mutationUpdate ELSE T_mutationSay
    [] site = "apiError" -> T_apiError
    [] site = "catchReport" -> T_error(rec.error)

\* if (statusMessage && ... ) await client.chat.update({text}) else await say(text)
IssueReport(rec, site) ==
  [rec EXCEPT !.pc = site,
              !.reports = Append(@, [text |-> ReportText(rec, site),
                                     via |-> IF Usable(rec) THEN "update" ELSE "say",
                                     st |-> "pending"])]

\* The last report's call settled.
SettleReport(rec, st) ==
  [rec EXCEPT !.reports = [@ EXCEPT ![Len(@)].st = st]]

\* Mutant: a rejected generation call is made once more before the catch block reports.
CatchRetryingGenerate(rec, message) ==
  IF rec.pc = "generate" /\ rec.nGenerate < 2
    THEN [rec EXCEPT !.nGenerate = @ + 1]
    ELSE [rec EXCEPT !.pc = "catchReport",
                     !.error = message,
                     !.reports = Append(@, [text |-> T_error(message),
                                            via |-> IF Usable(rec) THEN "update" ELSE "say",
                                            st |-> "pending"])]

\* Mutant: the catch block reports a fixed text, without error.message.
CatchWithoutMessage(rec, message) ==
  [rec EXCEPT !.pc = "catchReport",
              !.error = message,
              !.reports = Append(@, [text |-> Text("Something went wrong.", ""),
                                     via |-> IF Usable(rec) THEN "update" ELSE "say",
                                     st |-> "pending"])]

\* catch (error) { ... }
Catch(rec, message) == IssueReport([rec EXCEPT !.error = message], "catchReport")

\* await anthropic.messages.create(...) of STEP 1
CallGenerate(rec) == [rec EXCEPT !.pc = "generate", !.nGenerate = @ + 1]

\* "Update status" before STEP 1
StatusGenerating(rec) ==
  IF Usable(rec) THEN [rec EXCEPT !.pc = "updGenerating"] ELSE CallGenerate(rec)

\* Mutant: after the warning the handler waits for a CONFIRM that no step delivers.
SensitiveGuardWaits(rec) ==
  IF containsSensitiveOperation(cleanMessage(rec))
    THEN [rec EXCEPT !.pc = "awaitConfirm"]
    ELSE StatusGenerating(rec)

\* Mutant: after the warning the handler returns and leaves the request to a confirmation.
SensitiveGuardBlocks(rec) ==
  IF containsSensitiveOperation(cleanMessage(rec))
    THEN [rec EXCEPT !.pc = "returned"]
    ELSE StatusGenerating(rec)

\* GUARDRAIL 4: sensitive operations warning
SensitiveGuard(rec) ==
  IF containsSensitiveOperation(cleanMessage(rec))
    THEN [rec EXCEPT !.pc = "sayWarning"]
    ELSE StatusGenerating(rec)

\* Mutant: the first test forgets the admin.
WriteGuardUpdateOnly(rec) ==
  IF isWriteOperation(cleanMessage(rec))
    THEN IF ~ALLOWED_OPERATIONS.update
           THEN IssueReport(rec, "writeDisabled")
         ELSE IF ~isUserAdmin(rec.userId)
           THEN IssueReport(rec, "adminRequired")
         ELSE SensitiveGuard(rec)
    ELSE SensitiveGuard(rec)

\* Mutant: the admin test is missing.
WriteGuardNoAdminTest(rec) ==
  IF isWriteOperation(cleanMessage(rec))
    THEN IF ~ALLOWED_OPERATIONS.update /\ ~isUserAdmin(rec.userId)
           THEN IssueReport(rec, "writeDisabled")
           ELSE SensitiveGuard(rec)
    ELSE SensitiveGuard(rec)

\* Mutant: the guardrail is skipped.
WriteGuardSkipped(rec) == SensitiveGuard(rec)

\* GUARDRAIL 3: check for write operations
WriteGuard(rec) ==
  IF isWriteOperation(cleanMessage(rec))
    THEN IF ~ALLOWED_OPERATIONS.update /\ ~isUserAdmin(rec.userId)
           THEN IssueReport(rec, "writeDisabled")
         ELSE IF ~isUserAdmin(rec.userId)
           THEN IssueReport(rec, "adminRequired")
         ELSE SensitiveGuard(rec)
    ELSE SensitiveGuard(rec)

\* Mutant: the write guardrail runs before the rate limit.
ThrottleGuardAfterWrite(rec, now) ==
  IF isWriteOperation(cleanMessage(rec)) /\ ~isUserAdmin(rec.userId)
    THEN WriteGuard(rec)
    ELSE IF ~checkRateLimit(rec.userId, now)
      THEN IssueReport(rec, "rateLimited")
      ELSE WriteGuard(rec)

\* GUARDRAIL 2: rate limiting; now is what Date.now() returns inside checkRateLimit
ThrottleGuard(rec, now) ==
  IF ~checkRateLimit(rec.userId, now)
    THEN IssueReport(rec, "rateLimited")
    ELSE WriteGuard(rec)

\* Mutant: the branch reports but does not return.
AuthorizeGuardNoReturn(rec, now) == ThrottleGuard(rec, now)

\* GUARDRAIL 1: check if user is allowed
AuthorizeGuard(rec, now) ==
  IF ~isUserAllowed(rec.userId)
    THEN IssueReport(rec, "notAuthorized")
    ELSE ThrottleGuard(rec, now)

\* await queryShopify(graphqlQuery)
CallExecute(rec) == [rec EXCEPT !.pc = "queryShopify", !.nExecute = @ + 1]

\* Mutant: the test uses && as GUARDRAIL 3 does.
MutationGuardAnd(rec) ==
  IF isMutationQuery(rec.graphqlQuery)
    THEN IF ~ALLOWED_OPERATIONS.update /\ ~isUserAdmin(rec.userId)
           THEN IssueReport(rec, "mutationBlocked")
           ELSE CallExecute(rec)
    ELSE CallExecute(rec)

\* Mutant: every mutation is blocked.
MutationGuardBlockAll(rec) ==
  IF isMutationQuery(rec.graphqlQuery)
    THEN IssueReport(rec, "mutationBlocked")
    ELSE CallExecute(rec)

\* GUARDRAIL 5: block mutation queries
MutationGuard(rec) ==
  IF isMutationQuery(rec.graphqlQuery)
    THEN IF ~ALLOWED_OPERATIONS.update \/ ~isUserAdmin(rec.userId)
           THEN IssueReport(rec, "mutationBlocked")
           ELSE CallExecute(rec)
    ELSE CallExecute(rec)

\* "Update status" after STEP 1
StatusFetching(rec) ==
  IF Usable(rec) THEN [rec EXCEPT !.pc = "updFetching"] ELSE MutationGuard(rec)

\* await anthropic.messages.create(...) of STEP 3
CallFormat(rec) == [rec EXCEPT !.pc = "format", !.nFormat = @ + 1]

\* Mutant: the errors field is not looked at.
ErrorsGuardIgnored(rec) == CallFormat(rec)

\* "Check for errors": if (shopifyData.errors)
ErrorsGuard(rec) ==
  IF rec.shopifyData = "errors" THEN IssueReport(rec, "apiError") ELSE CallFormat(rec)

\* Mutant: STEP 3 is called before the payload is checked for errors.
StatusFormattingNoCheck(rec) == CallFormat(rec)

\* "Update status" after STEP 2
StatusFormatting(rec) ==
  IF Usable(rec) THEN [rec EXCEPT !.pc = "updFormatting"] ELSE ErrorsGuard(rec)

\* await say(formattedResponse)
SendFinal(rec) ==
  [rec EXCEPT !.pc = "sayFinal",
              !.reports = Append(@, [text |-> T_final(rec.formattedResponse),
                                     via |-> "say", st |-> "pending"])]

\* Mutant: the final response is sent with the status message left in place.
DeleteStatusSkipped(rec) == SendFinal(rec)

\* "Delete status message"
DeleteStatus(rec) ==
  IF Usable(rec) THEN [rec EXCEPT !.pc = "deleteStatus"] ELSE SendFinal(rec)


\* ------------------------------------------------------------------ actions
\* One request at a time from anybody with any text, or overlapping requests
\* of one user under the configuration of src/server.js.
SequentialTraffic == [overlap |-> 1, users |-> Users, messages |-> UserMessages]
OverlappingTraffic == [overlap |-> NumTasks, users |-> {"UB"}, messages |-> {Str(M_showStock)}]

Operations(update) == [read |-> TRUE, update |-> update, create |-> FALSE, delete |-> FALSE]

\* No classifier has been called on its own.
NoProbe == [fn |-> "none", input |-> <<>>, result |-> FALSE]

\* No checkRateLimit call has been made yet.
NoCall == [userId |-> "none", now |-> 0, result |-> TRUE]

Init ==
  /\ \/ /\ variant \in Variants
        /\ ALLOWED_USERS \in Whitelists
        /\ ALLOWED_OPERATIONS \in {Operations(u) : u \in BOOLEAN}
        /\ arrivals = SequentialTraffic
     \/ /\ variant = "server.js"
        /\ ALLOWED_USERS = {"UB"}
        /\ ALLOWED_OPERATIONS = Operations(TRUE)
        /\ arrivals = OverlappingTraffic
  /\ userRequestCounts = [u \in Users |-> <<>>]
  /\ clock = 0
  /\ task = [t \in Tasks |-> IdleTask]
  /\ accepted = [u \in Users |-> <<>>]
  /\ lastCall = NoCall
  /\ probe = NoProbe

config == <<variant, ALLOWED_USERS, ALLOWED_OPERATIONS, arrivals, probe>>
limiter == <<userRequestCounts, clock, accepted, lastCall>>

SetTask(t, rec) == task' = [task EXCEPT ![t] = rec]

\* handleMessage is called: validation, cleanMessage, await say('Analyzing your request...')
HandleMessage(t, userMessage, userId) ==
  /\ task[t].pc = "idle"
  /\ \A t2 \in Tasks : t2 < t => task[t2].pc # "idle"
  /\ Cardinality({t2 \in Tasks : task[t2].pc # "idle"}) < arrivals.overlap
  /\ userMessage \in arrivals.messages
  /\ userId \in arrivals.users
  /\ LET rec == [IdleTask EXCEPT !.userMessage = userMessage, !.userId = userId]
     IN IF isInvalidMessage(userMessage)
          THEN SetTask(t, [rec EXCEPT !.pc = "returned",
                                      !.reports = <<[text |-> T_invalid, via |-> "console",
                                                     st |-> "ok"]>>])
          ELSE SetTask(t, [rec EXCEPT !.pc = "sayAnalyzing",
                                      !.cleanMessage = cleanMessageOf(userMessage)])
  /\ UNCHANGED <<config, limiter>>

\* One run of checkRateLimit(userId) with Date.now() = now.
RunCheckRateLimit(userId, now) ==
  /\ clock' = now
  /\ userRequestCounts' = checkRateLimitStore(userId, now)
  /\ accepted' = IF checkRateLimit(userId, now)
                   THEN [accepted EXCEPT ![userId] = Append(@, now)]
                   ELSE accepted
  /\ lastCall' = [userId |-> userId, now |-> now, result |-> checkRateLimit(userId, now)]

\* Mutant: checkRateLimit is called before the isUserAllowed test returns.
ReachesCheckRateLimitAlways(userId) == TRUE

\* GUARDRAIL 1 returns before GUARDRAIL 2 calls checkRateLimit(userId).
ReachesCheckRateLimit(userId) == isUserAllowed(userId)

\* say('Analyzing your request...') resolved: GUARDRAILS 1 to 4 run in one synchronous
\* span.  authorized and throttled keep what isUserAllowed and checkRateLimit returned.
StatusCreated(t, result, now) ==
  /\ task[t].pc = "sayAnalyzing"
  /\ LET userId == task[t].userId
     IN \E rec \in {[task[t] EXCEPT
                       !.statusMessage = result,
                       !.authorized = IF isUserAllowed(userId) THEN "pass" ELSE "fail",
                       !.throttled = IF ~isUserAllowed(userId) THEN "unset"
                                     ELSE IF checkRateLimit(userId, now) THEN "pass"
                                     ELSE "fail"]} :
          /\ SetTask(t, AuthorizeGuard(rec, now))
          /\ IF ReachesCheckRateLimit(userId)
               THEN RunCheckRateLimit(userId, now)
               ELSE UNCHANGED limiter
  /\ UNCHANGED config

\* Mutant: an activation that fails after passing the rate limit gives its slot back.
userRequestCountsAfterFailureRefunded(rec) ==
  IF rec.throttled = "pass" /\ userRequestCounts[rec.userId] # <<>>
    THEN [userRequestCounts EXCEPT ![rec.userId] = SubSeq(@, 1, Len(@) - 1)]
    ELSE userRequestCounts

\* userRequestCounts once a terminal branch has reported or the catch block was
\* entered: neither touches the map.
userRequestCountsAfterFailure(rec) == userRequestCounts

ReportSites ==
  {"notAuthorized", "rateLimited", "writeDisabled", "adminRequired", "mutationBlocked",
   "apiError"}

\* The chat.update / say of a terminal branch resolved; the branch returns.
ReportSettled(t) ==
  /\ task[t].pc \in ReportSites
  /\ SetTask(t, [SettleReport(task[t], "ok") EXCEPT !.pc = "returned"])
  /\ userRequestCounts' = userRequestCountsAfterFailure(task[t])
  /\ UNCHANGED <<config, clock, accepted, lastCall>>

\* say('This is a sensitive operation. Type "CONFIRM" or "CANCEL"') resolved.
WarningSent(t) ==
  /\ task[t].pc = "sayWarning"
  /\ SetTask(t, StatusGenerating(task[t]))
  /\ UNCHANGED <<config, limiter>>

\* try { await client.chat.update('Generating Shopify query...') } catch { log }
GeneratingShown(t, ok) ==
  /\ task[t].pc = "updGenerating"
  /\ SetTask(t, CallGenerate(task[t]))
  /\ UNCHANGED <<config, limiter>>

\* STEP 1 resolved: graphqlQuery = queryResponse.content[0].text.trim()
Generated(t, query) ==
  /\ task[t].pc = "generate"
  /\ SetTask(t, StatusFetching([task[t] EXCEPT !.graphqlQuery = query]))
  /\ UNCHANGED <<config, limiter>>

\* try { await client.chat.update('Fetching data from Shopify...') } catch { log }
FetchingShown(t, ok) ==
  /\ task[t].pc = "updFetching"
  /\ SetTask(t, MutationGuard(task[t]))
  /\ UNCHANGED <<config, limiter>>

\* STEP 2 resolved: shopifyData = await queryShopify(graphqlQuery)
Executed(t, payload) ==
  /\ task[t].pc = "queryShopify"
  /\ SetTask(t, StatusFormatting([task[t] EXCEPT !.shopifyData = payload]))
  /\ UNCHANGED <<config, limiter>>

\* try { await client.chat.update('Formatting your results...') } catch { log }
FormattingShown(t, ok) ==
  /\ task[t].pc = "updFormatting"
  /\ SetTask(t, ErrorsGuard(task[t]))
  /\ UNCHANGED <<config, limiter>>

\* STEP 3 resolved: formattedResponse = formatResponse.content[0].text
Formatted(t, text) ==
  /\ task[t].pc = "format"
  /\ SetTask(t, DeleteStatus([task[t] EXCEPT !.formattedResponse = text]))
  /\ UNCHANGED <<config, limiter>>

\* try { await client.chat.delete(...) } catch { log }
StatusDeleted(t, ok) ==
  /\ task[t].pc = "deleteStatus"
  /\ SetTask(t, SendFinal([task[t] EXCEPT !.deleted = IF ok THEN "ok" ELSE "failed"]))
  /\ UNCHANGED <<config, limiter>>

\* say(formattedResponse) resolved; handleMessage returns.
FinalSent(t) ==
  /\ task[t].pc = "sayFinal"
  /\ SetTask(t, [SettleReport(task[t], "ok") EXCEPT !.pc = "returned"])
  /\ UNCHANGED <<config, limiter>>

\* Awaits of the try block whose rejection reaches the outer catch.
ThrowingSites ==
  ReportSites \cup {"sayAnalyzing", "sayWarning", "generate", "queryShopify", "format",
                    "sayFinal"}

\* An awaited call of the try block rejected with error.message = message.
CallThrew(t, message) ==
  /\ task[t].pc \in ThrowingSites
  /\ LET rec == IF task[t].pc \in ReportSites \cup {"sayFinal"}
                  THEN SettleReport(task[t], "failed") ELSE task[t]
     IN SetTask(t, Catch(rec, message))
  /\ userRequestCounts' = userRequestCountsAfterFailure(task[t])
  /\ UNCHANGED <<config, clock, accepted, lastCall>>

\* The chat.update / say inside catch settled: handleMessage returns, or its
\* promise rejects when the call itself threw.
CatchReportSettled(t, ok) ==
  /\ task[t].pc = "catchReport"
  /\ IF ok THEN SetTask(t, [SettleReport(task[t], "ok") EXCEPT !.pc = "returned"])
           ELSE SetTask(t, [SettleReport(task[t], "failed") EXCEPT !.pc = "rejected"])
  /\ UNCHANGED <<config, limiter>>

\* The activation is over and its locals are gone.
Release(t) ==
  /\ task[t].pc \in {"returned", "rejected"}
  /\ SetTask(t, IdleTask)
  /\ UNCHANGED <<config, limiter>>

Next ==
  \E t \in Tasks :
    \/ \E userMessage \in UserMessages, userId \in Users : HandleMessage(t, userMessage, userId)
    \/ \E result \in SayResults, now \in clock..MaxTime : StatusCreated(t, result, now)
    \/ ReportSettled(t)
    \/ WarningSent(t)
    \/ \E ok \in BOOLEAN : GeneratingShown(t, ok)
    \/ \E query \in GeneratedQueries : Generated(t, query)
    \/ \E ok \in BOOLEAN : FetchingShown(t, ok)
    \/ \E payload \in ShopifyPayloads : Executed(t, payload)
    \/ \E ok \in BOOLEAN : FormattingShown(t, ok)
    \/ \E text \in FormattedResponses : Formatted(t, text)
    \/ \E ok \in BOOLEAN : StatusDeleted(t, ok)
    \/ FinalSent(t)
    \/ \E message \in FaultMessages : CallThrew(t, message)
    \/ \E ok \in BOOLEAN : CatchReportSettled(t, ok)
    \/ Release(t)

Spec == Init /\ [][Next]_vars

\* The awaited call of activation t settles: it resolves or it rejects.
Settle(t) ==
  \/ \E result \in SayResults, now \in clock..MaxTime : StatusCreated(t, result, now)
  \/ ReportSettled(t)
  \/ WarningSent(t)
  \/ \E ok \in BOOLEAN : GeneratingShown(t, ok)
  \/ \E query \in GeneratedQueries : Generated(t, query)
  \/ \E ok \in BOOLEAN : FetchingShown(t, ok)
  \/ \E payload \in ShopifyPayloads : Executed(t, payload)
  \/ \E ok \in BOOLEAN : FormattingShown(t, ok)
  \/ \E text \in FormattedResponses : Formatted(t, text)
  \/ \E ok \in BOOLEAN : StatusDeleted(t, ok)
  \/ FinalSent(t)
  \/ \E message \in FaultMessages : CallThrew(t, message)
  \/ \E ok \in BOOLEAN : CatchReportSettled(t, ok)

\* One request at a time under src/server.js with everybody allowed.
InitFair ==
  /\ variant = "server.js"
  /\ ALLOWED_USERS = {}
  /\ ALLOWED_OPERATIONS = Operations(TRUE)
  /\ arrivals = SequentialTraffic
  /\ userRequestCounts = [u \in Users |-> <<>>]
  /\ clock = 0
  /\ task = [t \in Tasks |-> IdleTask]
  /\ accepted = [u \in Users |-> <<>>]
  /\ lastCall = NoCall
  /\ probe = NoProbe

\* Every awaited call eventually resolves or rejects.
FairSpec == InitFair /\ [][Next]_vars /\ \A t \in Tasks : WF_vars(Settle(t))

\* ------------------------------------------------------------------ the limiter alone
\* checkRateLimit called directly, at non-decreasing clock values, with no request handled.
InitLimiter ==
  /\ variant = "server.js"
  /\ ALLOWED_USERS = {}
  /\ ALLOWED_OPERATIONS = Operations(TRUE)
  /\ arrivals = SequentialTraffic
  /\ userRequestCounts = [u \in Users |-> <<>>]
  /\ clock = 0
  /\ task = [t \in Tasks |-> IdleTask]
  /\ accepted = [u \in Users |-> <<>>]
  /\ lastCall = NoCall
  /\ probe = NoProbe

CheckRateLimitCall(userId, now) ==
  /\ RunCheckRateLimit(userId, now)
  /\ UNCHANGED <<config, task>>

NextLimiter == \E userId \in Users, now \in clock..MaxLimiterTime : CheckRateLimitCall(userId, now)

SpecLimiter == InitLimiter /\ [][NextLimiter]_vars

\* The limiter alone, with every user calling again, up to the last instant modelled.
FairSpecLimiter ==
  /\ InitLimiter
  /\ [][NextLimiter]_vars
  /\ \A userId \in Users : WF_vars(CheckRateLimitCall(userId, MaxLimiterTime))


\* ------------------------------------------------------------------ the classifiers alone
\* isWriteOperation and isMutationQuery called directly on texts put together from
\* a few words, under either source file.
ProbeWords ==
  {W_how, <<"W">> \o Tail(W_what), W_update \o SP \o W_inventory,
   <<"D">> \o Tail(W_delete) \o SP \o W_product, W_stock, W_update}

ProbeTokens ==
  {W_query, W_mutation, W_stock, W_price, W_update \o <<"d", "A", "t">>,
   W_product \o <<"C">> \o Tail(W_create), <<"D">> \o Tail(W_delete)}

RECURSIVE Join(_)
\* The words of a sequence with one space between them.
Join(words) ==
  IF Len(words) = 1 THEN words[1] ELSE words[1] \o SP \o Join(Tail(words))

ProbeMessages == {Join(words) : words \in UNION {[1..n -> ProbeWords] : n \in 1..MaxWords}}
ProbeQueries == {Join(words) : words \in UNION {[1..n -> ProbeTokens] : n \in 1..MaxTokens}}

InitClassifier ==
  /\ variant \in Variants
  /\ ALLOWED_USERS = {}
  /\ ALLOWED_OPERATIONS = Operations(TRUE)
  /\ arrivals = SequentialTraffic
  /\ userRequestCounts = [u \in Users |-> <<>>]
  /\ clock = 0
  /\ task = [t \in Tasks |-> IdleTask]
  /\ accepted = [u \in Users |-> <<>>]
  /\ lastCall = NoCall
  /\ probe = NoProbe

\* isWriteOperation(message) is called and returns (one call is looked at per run).
CallIsWriteOperation(message) ==
  /\ probe = NoProbe
  /\ probe' = [fn |-> "isWriteOperation", input |-> message,
               result |-> isWriteOperation(message)]
  /\ UNCHANGED <<variant, ALLOWED_USERS, ALLOWED_OPERATIONS, arrivals, limiter, task>>

\* isMutationQuery(graphqlQuery) is called and returns (one call is looked at per run).
CallIsMutationQuery(graphqlQuery) ==
  /\ probe = NoProbe
  /\ probe' = [fn |-> "isMutationQuery", input |-> graphqlQuery,
               result |-> isMutationQuery(graphqlQuery)]
  /\ UNCHANGED <<variant, ALLOWED_USERS, ALLOWED_OPERATIONS, arrivals, limiter, task>>

NextClassifier ==
  \/ \E message \in ProbeMessages : CallIsWriteOperation(message)
  \/ \E graphqlQuery \in ProbeQueries : CallIsMutationQuery(graphqlQuery)

SpecClassifier == InitClassifier /\ [][NextClassifier]_vars


\* ------------------------------------------------------------------ properties
NotAuthorizedTexts == {T_notAuthorized}
RateLimitTexts == {T_rateLimitedUpdate, T_rateLimitedSay}
WriteDisabledTexts == {T_writeDisabledUpdate, T_writeDisabledSay}
AdminRequiredTexts == {T_adminRequired}
MutationTexts == {T_mutationUpdate, T_mutationSay}
ErrorTexts == {T_error(message) : message \in FaultMessages}

IssuedTexts(rec) == {rec.reports[i].text : i \in DOMAIN rec.reports}

\* The activation left through the terminal branch whose texts are X: the first
\* outcome message it issued is one of X, and it issued another one only because
\* that call was rejected, which is then the catch block's error message.
EndsWith(rec, X) ==
  /\ rec.reports # <<>>
  /\ rec.reports[1].text \in X
  /\ \A i \in 2..Len(rec.reports) :
       rec.reports[1].st = "failed" /\ rec.reports[i].text \in ErrorTexts

\* graphqlQuery holds the generated query and GUARDRAIL 5 has run on it.
MutationGuardRan(rec) == rec.graphqlQuery # <<>> /\ rec.pc # "updFetching"

\* The activation went on from GUARDRAIL 3 to GUARDRAIL 4 and the generation step.
PassedWriteGuard(rec) ==
  \/ rec.pc \in {"sayWarning", "updGenerating"}
  \/ rec.nGenerate = 1
  \/ /\ containsSensitiveOperation(cleanMessage(rec))
     /\ rec.error # ""
     /\ rec.reports[1].text \in ErrorTexts

Over(rec) == rec.pc \in {"returned", "rejected"}

\* C1: queryShopify is never called with a query isMutationQuery labels a mutation
\* unless ALLOWED_OPERATIONS.update holds and the user is an admin; otherwise the
\* activation leaves through the "Mutations not allowed" branch.
C1_MutationBlocked ==
  \A t \in Tasks :
    LET rec == task[t]
        permitted == ALLOWED_OPERATIONS.update /\ isUserAdmin(rec.userId)
    IN /\ rec.nExecute > 0 => (~isMutationQuery(rec.graphqlQuery) \/ permitted)
       /\ (MutationGuardRan(rec) /\ isMutationQuery(rec.graphqlQuery) /\ ~permitted)
            => /\ rec.nExecute = 0
               /\ rec.nFormat = 0
               /\ EndsWith(rec, MutationTexts)

C1_Witness ==
  \E t \in Tasks :
    /\ task[t].pc = "returned"
    /\ isMutationQuery(task[t].graphqlQuery)
    /\ ALLOWED_OPERATIONS.update
    /\ ~isUserAdmin(task[t].userId)
    /\ task[t].nExecute = 0
    /\ task[t].reports = <<[text |-> T_mutationUpdate, via |-> "update", st |-> "ok"]>>

\* C2: an activation whose user fails isUserAllowed leaves through the "not
\* authorized" branch, and never calls the generation, the execution or the
\* formatting step.
C2_UnauthorizedStops ==
  \A t \in Tasks :
    task[t].authorized = "fail"
      => /\ task[t].nGenerate = 0
         /\ task[t].nExecute = 0
         /\ task[t].nFormat = 0
         /\ EndsWith(task[t], NotAuthorizedTexts)

C2_Witness ==
  \E t \in Tasks :
    /\ task[t].pc = "returned"
    /\ ~isUserAllowed(task[t].userId)
    /\ task[t].reports = <<[text |-> T_notAuthorized, via |-> "update", st |-> "ok"]>>

\* The calls of user u that returned true with a timestamp in (t - windowMs, t].
AcceptedInWindow(u, t) ==
  {i \in DOMAIN accepted[u] :
     t - RATE_LIMIT.windowMs < accepted[u][i] /\ accepted[u][i] <= t}

\* C3: after any sequence of checkRateLimit calls at non-decreasing clock values, for
\* every user and every instant t, at most maxRequests calls returned true with a
\* timestamp in (t - windowMs, t].
C3_SlidingWindow ==
  \A u \in Users : \A t \in 0..(MaxLimiterTime + RATE_LIMIT.windowMs) :
    Cardinality(AcceptedInWindow(u, t)) <= RATE_LIMIT.maxRequests

C3_Witness ==
  \E u \in Users :
    /\ Len(accepted[u]) > RATE_LIMIT.maxRequests
    /\ Cardinality(AcceptedInWindow(u, clock)) = RATE_LIMIT.maxRequests
    /\ ~checkRateLimit(u, clock)

\* C4: however the activations interleave, every call of a user that passed the rate
\* limit within the current window is in the stored sequence the next call is judged
\* against, so no two of them passed against the same stored sequence, and at most
\* maxRequests of them passed.
C4_AtomicCheckAndRecord ==
  \A u \in Users :
    LET inWindow(seq) == SelectSeq(seq, LAMBDA ts : clock - ts < RATE_LIMIT.windowMs)
    IN /\ inWindow(userRequestCounts[u]) = inWindow(accepted[u])
       /\ Len(inWindow(accepted[u])) <= RATE_LIMIT.maxRequests
       /\ Cardinality({t \in Tasks : task[t].userId = u /\ task[t].throttled = "pass"})
            <= Len(accepted[u])

C4_Witness ==
  \E t1, t2 \in Tasks :
    /\ t1 # t2
    /\ task[t1].userId = task[t2].userId
    /\ task[t1].throttled = "pass"
    /\ ~Over(task[t1])
    /\ task[t2].pc = "rateLimited"
    /\ Len(accepted[task[t1].userId]) > RATE_LIMIT.maxRequests - 1


\* C5 (as claimed): every activation that is over has produced exactly one outcome: one
\* message that reached the user, or one logged drop.
C5_ExactlyOneOutcome ==
  \A t \in Tasks :
    Over(task[t])
      => Cardinality({i \in DOMAIN task[t].reports : task[t].reports[i].st = "ok"}) = 1

\* C6: an activation of an allowed user for which checkRateLimit returned false and
\* whose clean text isWriteOperation classifies as a write leaves through the rate
\* limit branch, never through "Write operations are disabled" or "Only
\* administrators can perform updates", and calls no external step.
C6_ThrottleBeforeWriteGuard ==
  \A t \in Tasks :
    (task[t].throttled = "fail" /\ isWriteOperation(cleanMessage(task[t])))
      => /\ EndsWith(task[t], RateLimitTexts)
         /\ IssuedTexts(task[t]) \cap (WriteDisabledTexts \cup AdminRequiredTexts) = {}
         /\ task[t].nGenerate = 0

C6_Witness ==
  \E t \in Tasks :
    /\ task[t].pc = "returned"
    /\ task[t].throttled = "fail"
    /\ isWriteOperation(cleanMessage(task[t]))
    /\ ~isUserAdmin(task[t].userId)
    /\ task[t].reports = <<[text |-> T_rateLimitedUpdate, via |-> "update", st |-> "ok"]>>

\* C7 (as claimed): with ALLOWED_OPERATIONS.update false, no activation whose clean text
\* is classified as a write reaches the generation or the execution step.
C7_NoWriteReachesGenerate ==
  \A t \in Tasks :
    (/\ ~ALLOWED_OPERATIONS.update
     /\ task[t].pc # "idle"
     /\ ~isInvalidMessage(task[t].userMessage)
     /\ isWriteOperation(cleanMessage(task[t])))
      => task[t].nGenerate = 0 /\ task[t].nExecute = 0

\* C7 (amended): with ALLOWED_OPERATIONS.update false, an activation whose clean text is
\* classified as a write reaches the generation step only for an admin, and then
\* reaches the execution step only with a generated query that is not classified
\* as a mutation.
C7_WriteDisabledAmended ==
  \A t \in Tasks :
    (/\ ~ALLOWED_OPERATIONS.update
     /\ task[t].pc # "idle"
     /\ ~isInvalidMessage(task[t].userMessage)
     /\ isWriteOperation(cleanMessage(task[t])))
      => /\ ~isUserAdmin(task[t].userId) => (task[t].nGenerate = 0 /\ task[t].nExecute = 0)
         /\ task[t].nExecute > 0 => ~isMutationQuery(task[t].graphqlQuery)
         /\ (MutationGuardRan(task[t]) /\ isMutationQuery(task[t].graphqlQuery))
              => task[t].nExecute = 0

C7_Witness ==
  \E t \in Tasks :
    /\ ~ALLOWED_OPERATIONS.update
    /\ isUserAdmin(task[t].userId)
    /\ isWriteOperation(cleanMessage(task[t]))
    /\ task[t].nGenerate = 1
    /\ task[t].nExecute = 1
    /\ task[t].pc = "returned"

\* C8: for an activation that passed GUARDRAILS 1 and 2 and whose clean text is
\* classified as a write: a non-admin leaves through "Write operations are disabled"
\* when update is false and through "Only administrators can perform updates" when
\* update is true, and an admin goes on to the next step; an activation whose text is
\* classified as a read always goes on.
C8_WriteGuardOutcomes ==
  \A t \in Tasks :
    LET rec == task[t]
        write == isWriteOperation(cleanMessage(rec))
        admin == isUserAdmin(rec.userId)
        update == ALLOWED_OPERATIONS.update
        blocked == IssuedTexts(rec) \cap (WriteDisabledTexts \cup AdminRequiredTexts) # {}
    IN rec.throttled = "pass"
         => /\ (write /\ ~admin /\ ~update)
                 => (EndsWith(rec, WriteDisabledTexts) /\ rec.nGenerate = 0)
            /\ (write /\ ~admin /\ update)
                 => (EndsWith(rec, AdminRequiredTexts) /\ rec.nGenerate = 0)
            /\ (write /\ admin) => (~blocked /\ PassedWriteGuard(rec))
            /\ ~write => (~blocked /\ PassedWriteGuard(rec))

C8_Witness ==
  \E t \in Tasks :
    /\ task[t].pc = "returned"
    /\ task[t].throttled = "pass"
    /\ isWriteOperation(cleanMessage(task[t]))
    /\ ~isUserAdmin(task[t].userId)
    /\ ~ALLOWED_OPERATIONS.update
    /\ task[t].reports =
         <<[text |-> T_writeDisabledUpdate, via |-> "update", st |-> "ok"]>>

\* A write in the words of the specification: one of its write keywords and none of
\* its interrogative markers.
SpecWriteKeywords ==
  {W_update, W_delete, W_create, W_modify, W_set, W_remove, W_add \o SP \o W_new}
SpecInterrogatives == {W_what, W_show, W_tell, W_how}
SpecWriteIntent(message) ==
  /\ \E keyword \in SpecWriteKeywords : includes(toLowerCase(message), keyword)
  /\ ~\E marker \in SpecInterrogatives : includes(toLowerCase(message), marker)

C10_AdminWriteSucceeds ==
  \A t \in Tasks :
    LET rec == task[t]
    IN (/\ ALLOWED_OPERATIONS.update
        /\ rec.throttled = "pass"
        /\ isUserAdmin(rec.userId)
        /\ isWriteOperation(cleanMessage(rec)))
         => /\ PassedWriteGuard(rec)
            /\ IssuedTexts(rec)
                 \cap (WriteDisabledTexts \cup AdminRequiredTexts \cup MutationTexts) = {}
            /\ MutationGuardRan(rec) => rec.nExecute = 1
            /\ (rec.pc = "returned" /\ rec.error = "" /\ rec.shopifyData = "data")
                 => /\ rec.nGenerate = 1 /\ rec.nExecute = 1 /\ rec.nFormat = 1
                    /\ rec.reports = <<[text |-> T_final(rec.formattedResponse),
                                        via |-> "say", st |-> "ok"]>>

C10_Witness ==
  \E t \in Tasks :
    /\ task[t].pc = "returned"
    /\ ALLOWED_OPERATIONS.update
    /\ isUserAdmin(task[t].userId)
    /\ isWriteOperation(cleanMessage(task[t]))
    /\ isMutationQuery(task[t].graphqlQuery)
    /\ task[t].nExecute = 1
    /\ \E text \in FormattedResponses :
         task[t].reports = <<[text |-> T_final(text), via |-> "say", st |-> "ok"]>>


ApiErrorTexts == {T_apiError}

\* GUARDRAIL "Check for errors" has run on the payload queryShopify returned.
ErrorsGuardRan(rec) == rec.shopifyData # "none" /\ rec.pc # "updFormatting"

\* C11: when queryShopify returned a payload with an errors field, the activation
\* leaves through the "Shopify API error" branch, whose message carries
\* JSON.stringify(shopifyData.errors), and the formatting call is never made.
C11_ErrorsPayloadStops ==
  \A t \in Tasks :
    (task[t].shopifyData = "errors" /\ ErrorsGuardRan(task[t]))
      => /\ EndsWith(task[t], ApiErrorTexts)
         /\ task[t].reports[1].text.arg = StringifiedErrors
         /\ task[t].nFormat = 0
         /\ task[t].formattedResponse = ""

C11_Witness ==
  \E t \in Tasks :
    /\ task[t].pc = "returned"
    /\ task[t].shopifyData = "errors"
    /\ task[t].nExecute = 1
    /\ task[t].nFormat = 0
    /\ task[t].reports = <<[text |-> T_apiError, via |-> "update", st |-> "ok"]>>


\* Every timestamp of seq is t.
AllAt(seq, t) == \A i \in DOMAIN seq : seq[i] = t

\* C12: for a user with no earlier accepted call, of the checkRateLimit calls made at
\* one instant t exactly the first maxRequests return true (a call returns false
\* only once maxRequests calls at t were accepted, and no call beyond them is
\* accepted); and after maxRequests accepted calls at t and none accepted since, a
\* call at t + windowMs + 1 returns true.
C12_BurstThenRecover ==
  \A u \in Users :
    lastCall.userId = u
      => /\ AllAt(accepted[u], lastCall.now)
              => /\ lastCall.result => Len(accepted[u]) <= RATE_LIMIT.maxRequests
                 /\ ~lastCall.result => Len(accepted[u]) = RATE_LIMIT.maxRequests
         /\ \A t \in 0..MaxLimiterTime :
              (/\ lastCall.now = t + RATE_LIMIT.windowMs + 1
               /\ Len(accepted[u]) \in {RATE_LIMIT.maxRequests, RATE_LIMIT.maxRequests + 1}
               /\ AllAt(SubSeq(accepted[u], 1, RATE_LIMIT.maxRequests), t)
               /\ AllAt(SubSeq(accepted[u], RATE_LIMIT.maxRequests + 1, Len(accepted[u])),
                        lastCall.now))
                => /\ lastCall.result
                   /\ Len(accepted[u]) > RATE_LIMIT.maxRequests

C12_Witness ==
  \E u \in Users :
    /\ lastCall = [userId |-> u, now |-> RATE_LIMIT.windowMs + 1, result |-> TRUE]
    /\ accepted[u] = [i \in 1..(RATE_LIMIT.maxRequests + 1) |->
                        IF i <= RATE_LIMIT.maxRequests THEN 0 ELSE RATE_LIMIT.windowMs + 1]
    /\ userRequestCounts[u] = <<RATE_LIMIT.windowMs + 1>>


\* The accepted calls of user u made before the latest call.
AcceptedBefore(u) ==
  IF lastCall.userId = u /\ lastCall.result
    THEN SubSeq(accepted[u], 1, Len(accepted[u]) - 1)
    ELSE accepted[u]

\* C13: a call at now is judged against the earlier accepted timestamps that are at
\* most windowMs - 1 old: one that is exactly windowMs old is expired and does not
\* count.  So a user whose limit was filled at t is rejected at t + windowMs - 1
\* and admitted again at exactly t + windowMs.
C13_StrictWindowBoundary ==
  \A u \in Users :
    lastCall.userId = u
      => LET now == lastCall.now
             before == AcceptedBefore(u)
             counted == {i \in DOMAIN before : now - before[i] <= RATE_LIMIT.windowMs - 1}
             filledAt(t) == Len(before) = RATE_LIMIT.maxRequests /\ AllAt(before, t)
         IN /\ lastCall.result = (Cardinality(counted) < RATE_LIMIT.maxRequests)
            /\ \A t \in 0..MaxLimiterTime :
                 /\ (filledAt(t) /\ now = t + RATE_LIMIT.windowMs) => lastCall.result
                 /\ (filledAt(t) /\ now = t + RATE_LIMIT.windowMs - 1) => ~lastCall.result

C13_Witness ==
  \E u \in Users :
    /\ lastCall = [userId |-> u, now |-> RATE_LIMIT.windowMs, result |-> TRUE]
    /\ accepted[u] = [i \in 1..(RATE_LIMIT.maxRequests + 1) |->
                        IF i <= RATE_LIMIT.maxRequests THEN 0 ELSE RATE_LIMIT.windowMs]
    /\ userRequestCounts[u] = <<RATE_LIMIT.windowMs>>


\* C14: a checkRateLimit call that returns false leaves userRequestCounts as it was:
\* the caller's stored sequence is neither pruned nor extended, and no other
\* user's entry changes.
C14_RejectedCallChangesNothing ==
  [][(lastCall'.userId \in Users /\ ~lastCall'.result)
       => userRequestCounts' = userRequestCounts]_vars

C14_Witness ==
  \E u, v \in Users :
    /\ u # v
    /\ lastCall.userId = u
    /\ ~lastCall.result
    /\ Len(userRequestCounts[u]) = RATE_LIMIT.maxRequests
    /\ userRequestCounts[u] = accepted[u]
    /\ userRequestCounts[v] # <<>>


\* C15: the rate limit state is kept per user.  A call for one user leaves every
\* other user's stored sequence as it was, what a call for B returns is decided
\* by B's own stored timestamps alone, and B is rejected only when B's own
\* accepted calls fill the window, whatever the other users did.
C15_PerUserIsolation ==
  [][\A B \in Users :
       LET now == lastCall'.now
           own == {i \in DOMAIN userRequestCounts[B] :
                     now - userRequestCounts[B][i] < RATE_LIMIT.windowMs}
       IN IF lastCall'.userId = B
            THEN /\ lastCall'.result = (Cardinality(own) < RATE_LIMIT.maxRequests)
                 /\ ~lastCall'.result
                      => Cardinality({i \in DOMAIN accepted[B] :
                                        now - accepted[B][i] < RATE_LIMIT.windowMs})
                           = RATE_LIMIT.maxRequests
                 /\ \A i \in DOMAIN userRequestCounts'[B] :
                      \E j \in DOMAIN accepted'[B] :
                        userRequestCounts'[B][i] = accepted'[B][j]
            ELSE /\ userRequestCounts'[B] = userRequestCounts[B]
                 /\ accepted'[B] = accepted[B]]_vars

C15_Witness ==
  \E A, B \in Users :
    /\ A # B
    /\ Len(recentRequests(A, clock)) = RATE_LIMIT.maxRequests
    /\ ~checkRateLimit(A, clock)
    /\ lastCall = [userId |-> B, now |-> clock, result |-> TRUE]
    /\ userRequestCounts[B] = <<clock>>


\* C16: what isUserAllowed(userId) returned for an activation is true iff
\* ALLOWED_USERS is empty or holds userId, for every user and every whitelist (with
\* an empty whitelist everybody is allowed); and the step that evaluated it
\* changed no configuration, and no limiter state when it returned false.
C16_AllowedIffEmptyOrMember ==
  [][\A t \in Tasks :
       (task[t].authorized = "unset" /\ task'[t].authorized # "unset")
         => /\ (task'[t].authorized = "pass")
                 = (ALLOWED_USERS = {} \/ task[t].userId \in ALLOWED_USERS)
            /\ ALLOWED_USERS = {} => task'[t].authorized = "pass"
            /\ UNCHANGED config
            /\ task'[t].authorized = "fail" => UNCHANGED limiter]_vars

C16_Witness ==
  \E t \in Tasks :
    /\ ALLOWED_USERS = {}
    /\ task[t].userId = "UB"
    /\ task[t].authorized = "pass"


\* C17: with a non-empty ALLOWED_USERS, an activation of a user who is in ADMIN_USERS
\* but not in ALLOWED_USERS leaves through the "not authorized" branch of GUARDRAIL
\* 1: the rate limiter is not consulted and no later step runs.
C17_AdminNotWhitelistedStops ==
  \A t \in Tasks :
    (/\ ALLOWED_USERS # {}
     /\ task[t].userId \in ADMIN_USERS
     /\ task[t].userId \notin ALLOWED_USERS
     /\ task[t].pc \notin {"idle", "sayAnalyzing"}
     /\ task[t].statusMessage # "null")
      => /\ task[t].authorized = "fail"
         /\ EndsWith(task[t], NotAuthorizedTexts)
         /\ task[t].throttled = "unset"
         /\ task[t].nGenerate = 0 /\ task[t].nExecute = 0 /\ task[t].nFormat = 0

C17_Witness ==
  \E t \in Tasks :
    /\ ALLOWED_USERS # {}
    /\ isUserAdmin(task[t].userId)
    /\ task[t].userId \notin ALLOWED_USERS
    /\ isWriteOperation(cleanMessage(task[t]))
    /\ task[t].pc = "returned"
    /\ task[t].reports = <<[text |-> T_notAuthorized, via |-> "update", st |-> "ok"]>>


\* The write keywords of the source file that runs.
writeKeywords == IF variant = "server.js" THEN writeKeywordsServer ELSE writeKeywordsPart000

HasWriteKeyword(message) ==
  \E keyword \in writeKeywords : includes(toLowerCase(message), keyword)

HasInterrogative(message) ==
  \E marker \in {W_what, W_show, W_tell, W_how} : includes(toLowerCase(message), marker)

\* C18 (as claimed): isWriteOperation returns false for every text that holds one of
\* "what", "show", "tell", "how" in any letter case, even next to a write keyword,
\* and returns true iff the text holds a write keyword and none of these markers.
C18_InterrogativeOverride ==
  probe.fn = "isWriteOperation"
    => /\ HasInterrogative(probe.input) => ~probe.result
       /\ probe.result = (HasWriteKeyword(probe.input) /\ ~HasInterrogative(probe.input))


\* C19: isMutationQuery returns true iff the lower-cased query holds "mutation",
\* "update", "delete" or "create" anywhere as a substring; so a read query in
\* which a field name merely holds one of them (query updatedAt) is a mutation.
C19_MutationBySubstring ==
  probe.fn = "isMutationQuery"
    => /\ probe.result
            = \E word \in {W_mutation, W_update, W_delete, W_create} :
                includes(toLowerCase(probe.input), word)
       /\ probe.input = W_query \o SP \o W_update \o <<"d", "A", "t">> => probe.result

C19_Witness ==
  /\ probe.fn = "isMutationQuery"
  /\ probe.input = W_query \o SP \o W_update \o <<"d", "A", "t">>
  /\ ~includes(toLowerCase(probe.input), W_mutation)
  /\ probe.result


\* C20: a sensitive keyword never blocks an activation and never makes it wait for
\* an answer.  An activation that passes GUARDRAILS 1 to 3 goes on to the warning
\* exactly when its clean text is sensitive and otherwise straight on to the
\* generation step; the only step out of the warning is the settlement of its
\* say call, after which the generation step is called (or, when that say was
\* rejected, the catch block runs); no step waits for a CONFIRM or CANCEL.
C20_SensitiveNeverBlocks ==
  [][\A t \in Tasks :
       LET rec == task[t]
           next == task'[t]
           sensitive == containsSensitiveOperation(cleanMessage(rec))
       IN /\ (/\ rec.pc = "sayAnalyzing"
              /\ next.throttled = "pass"
              /\ (~isWriteOperation(cleanMessage(rec)) \/ isUserAdmin(rec.userId)))
               => /\ next.pc \in {"sayWarning", "updGenerating", "generate"}
                  /\ (next.pc = "sayWarning") = sensitive
                  /\ next.reports = <<>>
          /\ (rec.pc = "sayWarning" /\ next # rec)
               => \/ next.pc = "updGenerating" /\ next.reports = <<>>
                  \/ next.pc = "generate" /\ next.nGenerate = 1 /\ next.reports = <<>>
                  \/ next.pc = "catchReport" /\ next.error \in FaultMessages
          /\ (rec.pc = "updGenerating" /\ next # rec)
               => next.pc = "generate" /\ next.nGenerate = 1]_vars

C20_Witness ==
  \E t \in Tasks :
    /\ containsSensitiveOperation(cleanMessage(task[t]))
    /\ task[t].pc = "generate"
    /\ task[t].nGenerate = 1
    /\ task[t].reports = <<>>


\* The terminal operations the status message of an activation received: the
\* chat.update calls of terminal branches and of the catch block that resolved,
\* and the chat.delete that resolved.
TerminalOperations(rec) ==
  Cardinality({i \in DOMAIN rec.reports :
                 rec.reports[i].via = "update" /\ rec.reports[i].st = "ok"})
    + (IF rec.deleted = "ok" THEN 1 ELSE 0)

\* C21 (as claimed): an activation that created a usable status message and has
\* returned gave that message exactly one terminal operation: one terminal
\* chat.update, or the chat.delete of the success path.
C21_OneTerminalOperation ==
  \A t \in Tasks :
    (task[t].pc = "returned" /\ Usable(task[t])) => TerminalOperations(task[t]) = 1


\* C22 (as claimed): the promise handleMessage returns never rejects: whatever call
\* is rejected, the fault is recovered inside the handler.
C22_NoUnhandledFault == \A t \in Tasks : task[t].pc # "rejected"


\* C23 (as claimed): a rejected chat.update or chat.delete on the status message is
\* swallowed and never changes what the user is told: no rejected chat.update of
\* a terminal branch (not authorized, rate limited, write rejected, mutation
\* blocked, Shopify API error) is escalated to the catch block and replaced by
\* its "Error: ..." message.
C23_StatusFailureSwallowed ==
  \A t \in Tasks :
    \A i \in DOMAIN task[t].reports :
      (/\ task[t].reports[i].via = "update"
       /\ task[t].reports[i].st = "failed"
       /\ task[t].reports[i].text \notin ErrorTexts)
        => /\ task[t].error = ""
           /\ \A j \in DOMAIN task[t].reports : task[t].reports[j].text \notin ErrorTexts


\* The call of STEP 1, STEP 2 or STEP 3 was made and rejected.
GenerateThrew(rec) == rec.nGenerate = 1 /\ rec.graphqlQuery = <<>> /\ rec.pc # "generate"
ExecuteThrew(rec) == rec.nExecute = 1 /\ rec.shopifyData = "none" /\ rec.pc # "queryShopify"
FormatThrew(rec) == rec.nFormat = 1 /\ rec.formattedResponse = "" /\ rec.pc # "format"

\* C24: when the call of the generation, execution or formatting step is rejected,
\* the one outcome message the activation issues is the catch block's
\* "Error: " + error.message, and no later step runs: after a rejected generation
\* no query is classified or executed, after a rejected execution nothing is
\* formatted, after a rejected formatting no final response is sent.
C24_CapabilityFaultReported ==
  \A t \in Tasks :
    LET rec == task[t]
    IN (GenerateThrew(rec) \/ ExecuteThrew(rec) \/ FormatThrew(rec))
         => /\ rec.error \in FaultMessages
            /\ Len(rec.reports) = 1
            /\ rec.reports[1].text = T_error(rec.error)
            /\ rec.pc \in {"catchReport", "returned", "rejected"}
            /\ GenerateThrew(rec) => rec.nExecute = 0 /\ rec.nFormat = 0
            /\ ExecuteThrew(rec) => rec.nFormat = 0
            /\ rec.deleted = "none"

C24_Witness ==
  \E t \in Tasks :
    /\ FormatThrew(task[t])
    /\ task[t].pc = "returned"
    /\ task[t].nGenerate = 1 /\ task[t].nExecute = 1
    /\ task[t].reports =
         <<[text |-> T_error("socket hang up"), via |-> "update", st |-> "ok"]>>


\* C25: within one activation the generation, execution and formatting calls are
\* each made at most once, and once a call was rejected (error is set) no
\* call of any of them is made any more.
C25_NoRetry ==
  [][\A t \in Tasks :
       LET rec == task[t]
           next == task'[t]
       IN /\ next.nGenerate <= 1 /\ next.nExecute <= 1 /\ next.nFormat <= 1
          /\ (rec.pc \in {"generate", "queryShopify", "format"} /\ next.error # "")
               => /\ next.nGenerate = rec.nGenerate
                  /\ next.nExecute = rec.nExecute
                  /\ next.nFormat = rec.nFormat
          /\ (rec.error # "" /\ next.pc # "idle")
               => /\ next.nGenerate = rec.nGenerate
                  /\ next.nExecute = rec.nExecute
                  /\ next.nFormat = rec.nFormat
                  /\ next.pc \notin {"generate", "queryShopify", "format"}]_vars

C25_Witness ==
  \E t \in Tasks :
    /\ ExecuteThrew(task[t])
    /\ task[t].error \in FaultMessages
    /\ task[t].pc = "returned"
    /\ task[t].nGenerate = 1
    /\ task[t].nExecute = 1
    /\ task[t].nFormat = 0


\* C26: handleMessage called with a message that is not a string, or with the empty
\* string, returns at once: say is not called (no status message, no message to
\* the user, only the console line), userRequestCounts is unchanged, and neither
\* isUserAllowed, checkRateLimit, a classifier nor an external step runs.
C26_InvalidMessageDropped ==
  [][\A t \in Tasks :
       LET next == task'[t]
       IN (/\ task[t].pc = "idle"
           /\ next.pc # "idle"
           /\ (next.userMessage.type # "string" \/ next.userMessage.chars = <<>>))
            => /\ next.pc = "returned"
               /\ next.statusMessage = "null"
               /\ next.reports = <<[text |-> T_invalid, via |-> "console", st |-> "ok"]>>
               /\ next.authorized = "unset" /\ next.throttled = "unset"
               /\ next.nGenerate = 0 /\ next.nExecute = 0 /\ next.nFormat = 0
               /\ UNCHANGED <<userRequestCounts, accepted, lastCall, clock>>]_vars

C26_Witness ==
  \E t \in Tasks :
    /\ task[t].userMessage = Str(<<>>)
    /\ task[t].pc = "returned"
    /\ task[t].statusMessage = "null"
    /\ task[t].reports = <<[text |-> T_invalid, via |-> "console", st |-> "ok"]>>
    /\ userRequestCounts[task[t].userId] = <<>>


\* C27: the steps of an activation run in the order validate, isUserAllowed,
\* checkRateLimit, isWriteOperation, sensitive warning, generate, isMutationQuery,
\* execute, format, final say, and after a terminal message was issued no later
\* step runs.  In every step: a guardrail result is set only after the ones
\* before it passed; the generation call is made only with the three guardrails
\* passed, after the warning when the text is sensitive, and with no message
\* issued; queryShopify is called only with a generated query that GUARDRAIL 5
\* let through; the formatting call is made only with a payload without errors;
\* the final response is sent only after formatting.
C27_StageOrder ==
  [][\A t \in Tasks :
       LET rec == task[t]
           next == task'[t]
           writeOk == ~isWriteOperation(cleanMessage(next)) \/ isUserAdmin(next.userId)
           sensitive == containsSensitiveOperation(cleanMessage(next))
           counters(r) == <<r.nGenerate, r.nExecute, r.nFormat>>
       IN /\ (rec.authorized = "unset" /\ next.authorized # "unset")
               => rec.pc = "sayAnalyzing" /\ ~isInvalidMessage(rec.userMessage)
          /\ (next.pc # "idle" /\ next.throttled # "unset") => next.authorized = "pass"
          /\ next.pc = "sayWarning" => next.throttled = "pass" /\ writeOk
          /\ next.nGenerate > rec.nGenerate
               => /\ next.throttled = "pass" /\ writeOk
                  /\ rec.pc \in {"sayAnalyzing", "sayWarning", "updGenerating"}
                  /\ sensitive => rec.pc \in {"sayWarning", "updGenerating"}
                  /\ next.reports = <<>>
          /\ next.nExecute > rec.nExecute
               => /\ rec.nGenerate = 1
                  /\ next.graphqlQuery \in GeneratedQueries
                  /\ isMutationQuery(next.graphqlQuery)
                       => ALLOWED_OPERATIONS.update /\ isUserAdmin(next.userId)
                  /\ next.reports = <<>>
          /\ next.nFormat > rec.nFormat
               => /\ rec.nExecute = 1
                  /\ next.shopifyData = "data"
                  /\ next.reports = <<>>
          /\ (Len(next.reports) > Len(rec.reports) /\ rec.reports = <<>>
              /\ next.reports[1].text \in {T_final(text) : text \in FormattedResponses})
               => rec.nFormat = 1 /\ next.formattedResponse \in FormattedResponses
          /\ (rec.reports # <<>> /\ next.pc # "idle")
               => /\ counters(next) = counters(rec)
                  /\ next.pc \in ReportSites \cup {"sayFinal", "catchReport", "returned",
                                                   "rejected"}]_vars

C27_Witness ==
  \E t \in Tasks :
    /\ task[t].pc = "returned"
    /\ containsSensitiveOperation(cleanMessage(task[t]))
    /\ task[t].authorized = "pass" /\ task[t].throttled = "pass"
    /\ task[t].nGenerate = 1 /\ task[t].nExecute = 1 /\ task[t].nFormat = 1
    /\ task[t].deleted = "ok"
    /\ task[t].reports =
         <<[text |-> T_final(task[t].formattedResponse), via |-> "say", st |-> "ok"]>>


\* C28: when every awaited call eventually resolves or rejects, every activation
\* eventually ends, having issued an outcome (a message, or the console line of a
\* dropped message): there is no loop and no position the handler waits in.
C28_EveryRequestEnds ==
  \A t \in Tasks :
    (task[t].pc # "idle") ~> (Over(task[t]) /\ task[t].reports # <<>>)

C28_Witness ==
  \E t \in Tasks :
    /\ Over(task[t])
    /\ task[t].nGenerate = 1 /\ task[t].nExecute = 1 /\ task[t].nFormat = 1
    /\ task[t].error \in FaultMessages
    /\ Len(task[t].reports) = 2

\* C29: every rate-limit message issued to the user carries the configured limit
\* (RATE_LIMIT.maxRequests), whether it is written into the status message or sent
\* with say because no usable status message exists.
C29_RateLimitTextHasLimit ==
  \A t \in Tasks :
    \A i \in DOMAIN task[t].reports :
      task[t].reports[i].text \in RateLimitTexts
        => task[t].reports[i].text.arg = ToString(RATE_LIMIT.maxRequests)


\* C30: the array stored for a user never holds more than RATE_LIMIT.maxRequests
\* timestamps, although expired ones stay stored until that user's next accepted call.
C30_StoredAtMostMaxRequests ==
  \A u \in Users : Len(userRequestCounts[u]) <= RATE_LIMIT.maxRequests

\* A user whose array is full of expired timestamps, untouched by a later rejected call
\* of that user's and by a later call of another user.
C30_Witness ==
  \E u \in Users :
    /\ Len(userRequestCounts[u]) = RATE_LIMIT.maxRequests
    /\ \A i \in DOMAIN userRequestCounts[u] :
         clock - userRequestCounts[u][i] >= RATE_LIMIT.windowMs
    /\ lastCall # NoCall /\ lastCall.userId # u

\* The timestamps of seq that are less than windowMs old at now.
InWindow(seq, now) == SelectSeq(seq, LAMBDA ts : now - ts < RATE_LIMIT.windowMs)

\* C31: a checkRateLimit call of user u at now returns true exactly when fewer than
\* maxRequests of u's earlier accepted calls are less than windowMs old at now (so
\* expired timestamps that are still stored never cause a rejection), and every
\* accepted timestamp of u that is less than windowMs old at the latest clock value is
\* still in u's stored array, in order.
C31_DecisionCountsInWindowOnly ==
  /\ \A u \in Users :
       lastCall.userId = u
         => lastCall.result
              = (Len(InWindow(AcceptedBefore(u), lastCall.now)) < RATE_LIMIT.maxRequests)
  /\ \A u \in Users :
       InWindow(userRequestCounts[u], clock) = InWindow(accepted[u], clock)

\* A call accepted although the stored array was full: one stored timestamp had expired,
\* the others are kept.
C31_Witness ==
  \E u \in Users :
    /\ lastCall.userId = u /\ lastCall.result
    /\ Len(AcceptedBefore(u)) >= RATE_LIMIT.maxRequests
    /\ Len(InWindow(AcceptedBefore(u), lastCall.now)) = RATE_LIMIT.maxRequests - 1
    /\ Len(userRequestCounts[u]) = RATE_LIMIT.maxRequests
    /\ userRequestCounts[u] = InWindow(accepted[u], clock)

\* The timestamp whose expiry ends the lockout of user u: the oldest of the maxRequests
\* latest accepted calls made before the latest call.
ReleasingTimestamp(u) ==
  AcceptedBefore(u)[Len(AcceptedBefore(u)) - RATE_LIMIT.maxRequests + 1]

\* The latest call is a rejected call of user u whose lockout ends within the instants
\* modelled.
Limited(u) ==
  /\ lastCall.userId = u /\ ~lastCall.result
  /\ ReleasingTimestamp(u) + RATE_LIMIT.windowMs <= MaxLimiterTime

\* C32: a call of user u made at or after (the oldest accepted timestamp that counted
\* against u) + windowMs returns true, whatever rejected calls u made before it; and
\* a user who was rejected and keeps calling is eventually accepted.
C32_RejectedCallsDoNotExtendLockout ==
  /\ [](\A u \in Users :
          (/\ lastCall.userId = u
           /\ Len(AcceptedBefore(u)) >= RATE_LIMIT.maxRequests
           /\ lastCall.now >= ReleasingTimestamp(u) + RATE_LIMIT.windowMs)
            => lastCall.result)
  /\ \A u \in Users :
       Limited(u) ~> (lastCall.userId = u /\ lastCall.result)

\* A user rejected again after the clock moved on from the call that filled the limit.
C32_Witness ==
  \E u \in Users :
    /\ Limited(u)
    /\ lastCall.now > accepted[u][Len(accepted[u])]
    /\ lastCall.now < ReleasingTimestamp(u) + RATE_LIMIT.windowMs

\* The whitelist admits user u: it is empty or holds u.
Whitelisted(u) == ALLOWED_USERS = {} \/ u \in ALLOWED_USERS

\* C33: only a user the whitelist admits ever has timestamps in userRequestCounts,
\* and no step of an activation of a user it does not admit changes the limiter.
C33_UnauthorizedNeverTouchesLimiter ==
  [][/\ \A u \in Users :
          (userRequestCounts'[u] # <<>> \/ userRequestCounts'[u] # userRequestCounts[u])
            => Whitelisted(u)
     /\ \A t \in Tasks :
          (/\ task'[t] # task[t]
           /\ \/ task[t].pc # "idle" /\ ~Whitelisted(task[t].userId)
              \/ task'[t].pc # "idle" /\ ~Whitelisted(task'[t].userId))
            => UNCHANGED limiter]_vars

\* An activation of a user outside the whitelist is over while the limiter holds
\* timestamps of a whitelisted user only.
C33_Witness ==
  \E t \in Tasks :
    /\ task[t].pc = "returned"
    /\ task[t].authorized = "fail"
    /\ userRequestCounts[task[t].userId] = <<>>
    /\ \E u \in Users : userRequestCounts[u] # <<>> /\ lastCall.userId = u

\* The texts of the failures an activation can end in after it passed the rate limit.
FailureTexts ==
  WriteDisabledTexts \cup AdminRequiredTexts \cup MutationTexts \cup ApiErrorTexts
    \cup ErrorTexts

\* C34: no step takes a timestamp that is still inside the window out of a user's
\* stored array, and no step of an activation that has passed the rate limit changes
\* the limiter: the slot of a request that ends in a failure keeps counting.
C34_SlotNeverRolledBack ==
  [][/\ \A u \in Users :
          Len(InWindow(userRequestCounts'[u], clock'))
            >= Len(InWindow(userRequestCounts[u], clock'))
     /\ \A t \in Tasks :
          (task[t].throttled = "pass" /\ task'[t] # task[t]) => UNCHANGED limiter]_vars

\* An activation that passed the rate limit is over with a failure, and the next call of
\* its user would be rejected with its slot counted.
C34_Witness ==
  \E t \in Tasks :
    /\ Over(task[t])
    /\ task[t].throttled = "pass"
    /\ task[t].reports # <<>>
    /\ task[t].reports[1].text \in FailureTexts
    /\ Len(InWindow(userRequestCounts[task[t].userId], clock)) = RATE_LIMIT.maxRequests
    /\ ~checkRateLimit(task[t].userId, clock)

\* The raw text is not empty and holds nothing but bot mentions and white space.
MentionsOnly(userMessage) == userMessage = Str(M_mentionOnly)

\* C35: a message that holds only bot mentions and white space is not dropped by the
\* validation; its clean text is empty; and once its user passed isUserAllowed and
\* checkRateLimit the activation goes on to the generation call, which gets the
\* empty clean text, with no outcome issued before it.
C35_MentionOnlyReachesGenerate ==
  \A t \in Tasks :
    (task[t].pc # "idle" /\ MentionsOnly(task[t].userMessage))
      => /\ T_invalid \notin IssuedTexts(task[t])
         /\ task[t].pc # "returned" \/ task[t].reports # <<>>
         /\ cleanMessage(task[t]) = <<>>
         /\ (task[t].authorized = "pass" /\ task[t].throttled = "pass")
              => \/ task[t].pc = "updGenerating" /\ task[t].reports = <<>>
                 \/ task[t].nGenerate = 1

C35_Witness ==
  \E t \in Tasks :
    /\ MentionsOnly(task[t].userMessage)
    /\ task[t].pc = "generate"
    /\ task[t].nGenerate = 1
    /\ cleanMessage(task[t]) = <<>>
    /\ task[t].reports = <<>>

\* The texts of the final response.
FinalTexts == {T_final(text) : text \in FormattedResponses}

\* The activation issued say(formattedResponse).
FinalIssued(rec) == \E i \in DOMAIN rec.reports : rec.reports[i].text \in FinalTexts

\* say(formattedResponse) rejected and the catch block issued its message.
FinalFailed(rec) ==
  /\ Len(rec.reports) = 2
  /\ rec.reports[1].text \in FinalTexts /\ rec.reports[1].st = "failed"
  /\ rec.reports[2].text \in ErrorTexts

\* C36 (as claimed): with a usable status message, chat.delete has settled before
\* say(formattedResponse) is issued, a rejected chat.delete is followed by the final
\* say all the same, and when that say rejects the catch block updates a status
\* message that was deleted.
C36_CatchOnClearedHandle ==
  \A t \in Tasks :
    /\ (FinalIssued(task[t]) /\ Usable(task[t])) => task[t].deleted # "none"
    /\ task[t].deleted = "failed" => FinalIssued(task[t])
    /\ (FinalFailed(task[t]) /\ Usable(task[t]))
         => task[t].reports[2].via = "update" /\ task[t].deleted = "ok"

\* C36 (amended): with a usable status message, chat.delete has settled before
\* say(formattedResponse) is issued, a rejected chat.delete is followed by the final
\* say all the same, and when that say rejects the catch block updates the status
\* message chat.delete was already called on: a deleted one when the delete resolved,
\* one still in place when it rejected.  Without a usable status message nothing
\* is deleted and the catch block reports with say.
C36_CatchAfterClearAttempt ==
  \A t \in Tasks :
    /\ (FinalIssued(task[t]) /\ Usable(task[t])) => task[t].deleted \in {"ok", "failed"}
    /\ task[t].deleted = "failed" => FinalIssued(task[t])
    /\ (FinalFailed(task[t]) /\ Usable(task[t]))
         => task[t].reports[2].via = "update" /\ task[t].deleted \in {"ok", "failed"}
    /\ (FinalFailed(task[t]) /\ ~Usable(task[t]))
         => task[t].reports[2].via = "say" /\ task[t].deleted = "none"

C36_Witness ==
  \E t \in Tasks :
    /\ FinalFailed(task[t])
    /\ Usable(task[t])
    /\ task[t].deleted = "ok"
    /\ task[t].reports[2].via = "update"
    /\ task[t].pc = "catchReport"

\* say('Analyzing your request...') rejected: the activation has no status message and
\* is in, or past, the catch block.
CreationThrew(rec) ==
  /\ rec.pc \in {"catchReport", "returned", "rejected"}
  /\ rec.statusMessage = "null"
  /\ rec.error \in FaultMessages

\* C37: every message that passes the validation goes to say('Analyzing your
\* request...') first, and every activation whose user was tested by isUserAllowed
\* (those rejected there or by checkRateLimit too) has had that say resolved; when
\* that say rejects, isUserAllowed and checkRateLimit are not called, the limiter
\* is not changed then or later by the activation, no generation, execution or
\* formatting call is made, and the one outcome issued is the error text, sent with
\* say and not with chat.update.
C37_StatusCreatedBeforeGuards ==
  [][\A t \in Tasks :
       /\ (task[t].pc = "idle" /\ task'[t].pc # "idle"
              /\ task'[t].userMessage.type = "string" /\ task'[t].userMessage.chars # <<>>)
            => /\ task'[t].pc = "sayAnalyzing"
               /\ task'[t].authorized = "unset" /\ task'[t].throttled = "unset"
       /\ task'[t].authorized # "unset"
            => /\ task'[t].statusMessage \in SayResults
               /\ task[t].pc = "sayAnalyzing" \/ task[t].authorized # "unset"
       /\ (task'[t].statusMessage = "null" /\ task'[t].pc # "idle")
            => task'[t].authorized = "unset" /\ task'[t].throttled = "unset"
       /\ CreationThrew(task'[t])
            => /\ task'[t].nGenerate = 0 /\ task'[t].nExecute = 0 /\ task'[t].nFormat = 0
               /\ Len(task'[t].reports) = 1
               /\ task'[t].reports[1].text = T_error(task'[t].error)
               /\ task'[t].reports[1].via = "say"
               /\ task'[t] # task[t] => UNCHANGED limiter
       /\ (CreationThrew(task[t]) /\ task'[t] # task[t]) => UNCHANGED limiter]_vars

C37_Witness ==
  \E t \in Tasks :
    /\ CreationThrew(task[t])
    /\ task[t].pc = "returned"
    /\ task[t].reports = <<[text |-> T_error("socket hang up"), via |-> "say", st |-> "ok"]>>
    /\ \A u \in Users : userRequestCounts[u] = <<>>

====
